---- MODULE Spec2Model ----
(***************************************************************************)
(* Model of hnl.dynamicimports.mjs: the eager import chains with their     *)
(* shared counter c and completion callback, and the lazy groups with      *)
(* their docShift handler watchModules, the visibility callbacks and the   *)
(* deferredModules registry.                                               *)
(*                                                                         *)
(* Eager keys are 1..n, lazy keys are 1..m (two disjoint request sets); a  *)
(* key's element group of size s is the set 1..s.                          *)
(***************************************************************************)
EXTENDS Integers, Sequences, FiniteSets

\* Bounds of the model.
MaxEager  == 2   \* eager keys found by the scanner
MaxGroup  == 2   \* elements requiring one key
MaxShifts == 2   \* docShift signals delivered
MaxKeyLen == 5   \* tokens of a module key given to rewritePath

VARIABLES
  started,          \* the scanner's callback (line 67) has run
  callback,         \* typeof callback === 'function'
  modules,          \* eager key -> size of its element group
  c,                \* the counter of line 68
  epc,              \* eager key -> position of its import chain
  eres,             \* eager key -> what import(path) settled with
  einit,            \* eager key -> arguments of the init calls made
  decs,             \* eager key -> number of c-- executed for the key
  cbCount,          \* number of invocations of callback
  ereported,        \* eager key -> number of hnlLogger.error calls of its chain
  elements,         \* lazy key -> size of its element group (closure of watchModules)
  deferredModules,  \* the registry: lazy key -> size of its group, keys deleted on load
  listeners,        \* lazy keys whose watchModules is bound to docShift
  watches,          \* lazy key -> element -> isVisible watches not yet fired
  loads,            \* lazy key -> stage -> number of import chains at that stage
  issued,           \* lazy key -> number of import(path) issued
  linit,            \* lazy key -> arguments of the init calls made
  runs,             \* lazy key -> number of runs of its watchModules
  calls,            \* lazy key -> elements whose visibility callback has run
  skipped,          \* lazy keys of which a visibility callback found the guard false
  lazyFailed,       \* lazy keys of which a load has been rejected and reported
  lazyThrew,        \* lazy keys whose init has thrown
  reloaded,         \* lazy keys loaded again after a reported failure
  shifts,           \* docShift signals delivered so far
  uri,              \* the module key given to rewritePath, a sequence of tokens
  SITE_NONCE,       \* the global SITE_NONCE, "undefined" when it is not defined
  debug,            \* window.location.search.includes('debug')
  path              \* what rewritePath returned, <<>> before the call

vars == <<started, callback, modules, c, epc, eres, einit, decs, cbCount,
          ereported, elements, deferredModules, listeners, watches, loads,
          issued, linit, runs, calls, skipped, lazyFailed, lazyThrew,
          reloaded, shifts, uri, SITE_NONCE, debug, path>>

eagerVars == <<c, epc, eres, einit, decs, cbCount, ereported>>
lazyVars  == <<deferredModules, listeners, watches, loads, issued,
               linit, runs, calls, skipped, lazyFailed, lazyThrew, reloaded,
               shifts>>
scanVars  == <<started, callback, modules, elements>>
pathVars  == <<uri, SITE_NONCE, debug, path>>

\* What import(path) can settle with: a load error, or a module that
\* exports no init, an init that returns, or an init that throws.
Results == {"error", "noinit", "init", "throws"}

\* Stages of a lazy import chain that still has a handler to run.
LazyStages == {"loading", "fulfilled", "rejected"}

\* The element group of a key with n requiring elements.
Group(n) == 1..n

\* totals, the third argument of the scanner's callback.
totals(mods) == Cardinality(DOMAIN mods)

\* line 78 / line 113: typeof module.init === 'function'
hasInit(module) == module \in {"init", "throws"}

initArgsFirst(els) == {1}

\* line 82 / line 117: module.init.call(module, elements)
initArgs(els) == Group(els)

fulfilledAll(res, key) == \A k \in DOMAIN res : res[k] # "error"

\* line 75: the .then() handler of a key runs when the key's own import
\* has fulfilled
fulfilled(res, key) == res[key] # "error"

tryInitNoCatch(module) == IF module = "throws" THEN "thrown" ELSE "returned"

\* lines 80-85 / lines 115-120: try { module.init.call(...) } catch (err)
\* { hnlLogger.error(name, err) }; how the block ends: the call returned, an
\* error was caught and reported, or an error was thrown out of the handler.
tryInit(module) == IF module = "throws" THEN "caught" ELSE "returned"

decrementTwice(x) == x - 2

\* line 87: c--
decrement(x) == x - 1

isNonZero(x) == x # 0

\* line 91: if (!c)
isZero(x) == x = 0

guardAlways(dm, key) == TRUE

\* line 106: if (deferredModules[key])
guard(dm, key) == key \in DOMAIN dm

deleteAll(dm, key) == <<>>

\* line 123: delete deferredModules[key]
delete(dm, key) == [k \in (DOMAIN dm) \ {key} |-> dm[k]]

keepListener(ls, key) == ls

\* line 129: eventHandler.removeListener('docShift', watchModules)
removeListener(ls, key) == ls \ {key}

\* line 105: isVisible(element, cb) registers one watch on the element
isVisible(w, key, element) == [w EXCEPT ![key][element] = @ + 1]

\* The document as the scanner finds it: at most maxN eager and maxM deferred
\* keys, each with a non-empty element group; nothing has run yet.
InitWith(maxN, maxM) ==
  /\ uri = <<>>
  /\ SITE_NONCE = "undefined"
  /\ debug = FALSE
  /\ path = <<>>
  /\ started = FALSE
  /\ callback \in BOOLEAN
  /\ \E n \in 0..maxN : modules \in [1..n -> 1..MaxGroup]
  /\ \E m \in 0..maxM : elements \in [1..m -> 1..MaxGroup]
  /\ c = 0
  /\ epc = <<>>
  /\ eres = <<>>
  /\ einit = <<>>
  /\ decs = <<>>
  /\ cbCount = 0
  /\ ereported = <<>>
  /\ deferredModules = <<>>
  /\ listeners = {}
  /\ watches = <<>>
  /\ loads = <<>>
  /\ issued = <<>>
  /\ linit = <<>>
  /\ runs = <<>>
  /\ calls = <<>>
  /\ skipped = {}
  /\ lazyFailed = {}
  /\ lazyThrew = {}
  /\ reloaded = {}
  /\ shifts = 0

dynImportsTestsZero ==
  /\ ~started
  /\ started' = TRUE
  /\ c' = totals(modules)
  /\ epc' = [k \in DOMAIN modules |-> "loading"]
  /\ eres' = [k \in DOMAIN modules |-> "none"]
  /\ einit' = [k \in DOMAIN modules |-> <<>>]
  /\ decs' = [k \in DOMAIN modules |-> 0]
  /\ ereported' = [k \in DOMAIN modules |-> 0]
  /\ deferredModules' = elements
  /\ listeners' = DOMAIN elements
  /\ watches' = [k \in DOMAIN elements |-> [e \in Group(elements[k]) |-> 0]]
  /\ loads' = [k \in DOMAIN elements |-> [s \in LazyStages |-> 0]]
  /\ issued' = [k \in DOMAIN elements |-> 0]
  /\ linit' = [k \in DOMAIN elements |-> <<>>]
  /\ runs' = [k \in DOMAIN elements |-> 0]
  /\ calls' = [k \in DOMAIN elements |-> {}]
  /\ cbCount' = IF isZero(totals(modules)) /\ callback THEN cbCount + 1
                                                         ELSE cbCount
  /\ UNCHANGED <<callback, modules, elements, skipped, lazyFailed,
                 lazyThrew, reloaded, shifts>>
  /\ UNCHANGED pathVars

\* lines 66-137: dynImports(callback); the scanner hands over the two request
\* sets, every eager import is issued and every lazy group binds watchModules.
dynImports ==
  /\ ~started
  /\ started' = TRUE
  /\ c' = totals(modules)
  /\ epc' = [k \in DOMAIN modules |-> "loading"]
  /\ eres' = [k \in DOMAIN modules |-> "none"]
  /\ einit' = [k \in DOMAIN modules |-> <<>>]
  /\ decs' = [k \in DOMAIN modules |-> 0]
  /\ ereported' = [k \in DOMAIN modules |-> 0]
  /\ deferredModules' = elements
  /\ listeners' = DOMAIN elements
  /\ watches' = [k \in DOMAIN elements |-> [e \in Group(elements[k]) |-> 0]]
  /\ loads' = [k \in DOMAIN elements |-> [s \in LazyStages |-> 0]]
  /\ issued' = [k \in DOMAIN elements |-> 0]
  /\ linit' = [k \in DOMAIN elements |-> <<>>]
  /\ runs' = [k \in DOMAIN elements |-> 0]
  /\ calls' = [k \in DOMAIN elements |-> {}]
  /\ UNCHANGED <<callback, modules, elements, cbCount, skipped, lazyFailed,
                 lazyThrew, reloaded, shifts>>
  /\ UNCHANGED pathVars

\* line 75: the promise of import(path) settles.
Settle(key) ==
  /\ started
  /\ key \in DOMAIN modules
  /\ epc[key] = "loading"
  /\ \E r \in Results : eres' = [eres EXCEPT ![key] = r]
  /\ epc' = [epc EXCEPT ![key] = "then"]
  /\ UNCHANGED <<c, einit, decs, cbCount, ereported>>
  /\ UNCHANGED scanVars
  /\ UNCHANGED pathVars
  /\ UNCHANGED lazyVars

\* lines 75-88: the reaction of .then(); the handler runs on fulfilment only,
\* a rejection passes through to .catch().
Then(key) ==
  /\ started
  /\ key \in DOMAIN modules
  /\ epc[key] = "then"
  /\ IF fulfilled(eres, key)
       THEN LET end == IF hasInit(eres[key]) THEN tryInit(eres[key])
                                             ELSE "returned"
            IN  /\ einit' = [einit EXCEPT ![key] =
                               IF hasInit(eres[key])
                                 THEN Append(@, initArgs(modules[key])) ELSE @]
                /\ ereported' = [ereported EXCEPT ![key] =
                                   IF end = "caught" THEN @ + 1 ELSE @]
                /\ IF end = "thrown"
                     THEN \* the handler is left before c--, the chain rejects
                          /\ eres' = [eres EXCEPT ![key] = "error"]
                          /\ UNCHANGED <<c, decs>>
                     ELSE /\ c' = decrement(c)
                          /\ decs' = [decs EXCEPT ![key] = @ + 1]
                          /\ UNCHANGED eres
       ELSE UNCHANGED <<einit, c, decs, eres, ereported>>
  /\ epc' = [epc EXCEPT ![key] = "catch"]
  /\ UNCHANGED cbCount
  /\ UNCHANGED scanVars
  /\ UNCHANGED pathVars
  /\ UNCHANGED lazyVars

\* lines 88-90: the reaction of .catch(); the handler only reports the error.
Catch(key) ==
  /\ started
  /\ key \in DOMAIN modules
  /\ epc[key] = "catch"
  /\ ereported' = [ereported EXCEPT ![key] =
                     IF fulfilled(eres, key) THEN @ ELSE @ + 1]
  /\ epc' = [epc EXCEPT ![key] = "finally"]
  /\ UNCHANGED <<c, eres, einit, decs, cbCount>>
  /\ UNCHANGED scanVars
  /\ UNCHANGED pathVars
  /\ UNCHANGED lazyVars

\* lines 90-98: the reaction of .finally().
Finally(key) ==
  /\ started
  /\ key \in DOMAIN modules
  /\ epc[key] = "finally"
  /\ cbCount' = IF isZero(c) /\ callback THEN cbCount + 1 ELSE cbCount
  /\ epc' = [epc EXCEPT ![key] = "done"]
  /\ UNCHANGED <<c, eres, einit, decs, ereported>>
  /\ UNCHANGED scanVars
  /\ UNCHANGED pathVars
  /\ UNCHANGED lazyVars

watchFirstOnly(w, key, n) == isVisible(w, key, 1)

\* line 104: elements.forEach, a watch on every element of the group.
RECURSIVE watchAll(_, _, _)
watchAll(w, key, n) ==
  IF n = 0 THEN w ELSE watchAll(isVisible(w, key, n), key, n - 1)

\* lines 103-132: watchModules of one group.
watchModules(w, key) == watchAll(w, key, elements[key])

\* The event bus calls every handler bound to the signal.
RECURSIVE dispatch(_, _)
dispatch(w, keys) ==
  IF keys = {} THEN w
  ELSE LET key == CHOOSE k \in keys : TRUE
       IN  dispatch(watchModules(w, key), keys \ {key})

\* line 134: a docShift signal runs every bound watchModules.
docShift ==
  /\ started
  /\ shifts < MaxShifts
  /\ shifts' = shifts + 1
  /\ watches' = dispatch(watches, listeners)
  /\ runs' = [k \in DOMAIN runs |-> IF k \in listeners THEN runs[k] + 1 ELSE runs[k]]
  /\ UNCHANGED <<deferredModules, listeners, loads, issued, linit, calls,
                 skipped, lazyFailed, lazyThrew, reloaded>>
  /\ UNCHANGED scanVars
  /\ UNCHANGED pathVars
  /\ UNCHANGED eagerVars

\* lines 105-130: the visibility callback of one element.
onVisible(key, element) ==
  /\ started
  /\ key \in DOMAIN elements
  /\ element \in Group(elements[key])
  /\ watches[key][element] > 0
  /\ watches' = [watches EXCEPT ![key][element] = @ - 1]
  /\ IF guard(deferredModules, key)
       THEN /\ loads' = [loads EXCEPT ![key]["loading"] = @ + 1]
            /\ issued' = [issued EXCEPT ![key] = @ + 1]
            /\ reloaded' = reloaded \cup ({key} \cap lazyFailed)
            /\ UNCHANGED skipped
       ELSE /\ skipped' = skipped \cup {key}
            /\ UNCHANGED <<loads, issued, reloaded>>
  /\ listeners' = removeListener(listeners, key)
  /\ calls' = [calls EXCEPT ![key] = @ \cup {element}]
  /\ UNCHANGED <<deferredModules, linit, runs, lazyFailed, lazyThrew, shifts>>
  /\ UNCHANGED scanVars
  /\ UNCHANGED pathVars
  /\ UNCHANGED eagerVars

\* line 110: the promise of a lazy import(path) settles.
LazySettle(key) ==
  /\ started
  /\ key \in DOMAIN elements
  /\ loads[key]["loading"] > 0
  /\ \E s \in {"fulfilled", "rejected"} :
       loads' = [loads EXCEPT ![key]["loading"] = @ - 1, ![key][s] = @ + 1]
  /\ UNCHANGED <<deferredModules, listeners, watches, issued, linit, runs,
                 calls, skipped, lazyFailed, lazyThrew, reloaded, shifts>>
  /\ UNCHANGED scanVars
  /\ UNCHANGED pathVars
  /\ UNCHANGED eagerVars

\* lines 110-124: the .then() handler of a lazy import.
LazyThen(key) ==
  /\ started
  /\ key \in DOMAIN elements
  /\ loads[key]["fulfilled"] > 0
  /\ \E module \in Results \ {"error"} :
       LET end == IF hasInit(module) THEN tryInit(module) ELSE "returned"
       IN  /\ linit' = [linit EXCEPT ![key] =
                           IF hasInit(module)
                             THEN Append(@, initArgs(elements[key])) ELSE @]
           /\ lazyThrew' = IF end = "returned" THEN lazyThrew
                                                ELSE lazyThrew \cup {key}
           /\ IF end = "thrown"
                THEN \* the handler is left before the delete, the chain rejects
                     /\ loads' = [loads EXCEPT ![key]["fulfilled"] = @ - 1,
                                               ![key]["rejected"] = @ + 1]
                     /\ UNCHANGED deferredModules
                ELSE /\ loads' = [loads EXCEPT ![key]["fulfilled"] = @ - 1]
                     /\ deferredModules' = delete(deferredModules, key)
  /\ UNCHANGED <<listeners, watches, issued, runs, calls, skipped,
                 lazyFailed, reloaded, shifts>>
  /\ UNCHANGED scanVars
  /\ UNCHANGED pathVars
  /\ UNCHANGED eagerVars

\* lines 124-126: the .catch() handler of a lazy import.
LazyCatch(key) ==
  /\ started
  /\ key \in DOMAIN elements
  /\ loads[key]["rejected"] > 0
  /\ loads' = [loads EXCEPT ![key]["rejected"] = @ - 1]
  /\ lazyFailed' = lazyFailed \cup {key}
  /\ UNCHANGED <<deferredModules, listeners, watches, issued, linit, runs,
                 calls, skipped, lazyThrew, reloaded, shifts>>
  /\ UNCHANGED scanVars
  /\ UNCHANGED pathVars
  /\ UNCHANGED eagerVars

(***************************************************************************)
(* rewritePath.  A string is a sequence of tokens: the characters "%",     *)
(* ".", "/", "?", "=", "&" and words that hold none of them.               *)
(***************************************************************************)

\* The tokens module keys are made of.  "assets" is the alias the code
\* registers, "constructor" a property every object literal inherits,
\* "foo" any other word.
KeyTokens == {"%", ".", "/", "?", "assets", "constructor", "foo"}

\* crypto.randomUUID() of line 48.
UUIDs == {"uuid1", "uuid2"}

\* lines 25-27: the value of dynImportPaths[name]: the registered prefix, a
\* function inherited from Object.prototype, or undefined.
dynImportPaths(name) ==
  IF name = <<"assets">>
    THEN [type |-> "string", text |-> <<"https://code.hnldesign.nl/js-modules/">>]
  ELSE IF name = <<"constructor">>
    THEN [type |-> "function", text |-> <<>>]
  ELSE [type |-> "undefined", text |-> <<>>]

\* line 40: the truthiness of dynImportPaths[customPath[1]]
truthy(v) == v.type # "undefined"

\* line 39: new RegExp(/^%(.*?)%/gi).exec(uri): null, or the match
\* customPath[0] and its group customPath[1], which ends at the first "%"
\* after the leading one.
customPath(u) ==
  IF Len(u) >= 2 /\ u[1] = "%" /\ \E j \in 2..Len(u) : u[j] = "%"
    THEN LET j == CHOOSE i \in 2..Len(u) :
                    u[i] = "%" /\ \A h \in 2..(i - 1) : u[h] # "%"
         IN  [found |-> TRUE, full |-> SubSeq(u, 1, j), name |-> SubSeq(u, 2, j - 1)]
    ELSE [found |-> FALSE, full |-> <<>>, name |-> <<>>]

\* Where pat first occurs in str, 0 when it does not.
indexOf(str, pat) ==
  LET hits == {i \in 1..(Len(str) - Len(pat) + 1) :
                 SubSeq(str, i, i + Len(pat) - 1) = pat}
  IN  IF hits = {} THEN 0 ELSE CHOOSE i \in hits : \A h \in hits : i <= h

\* String.prototype.replace with a string pattern: the first occurrence only.
replace(str, pat, new) ==
  LET i == indexOf(str, pat)
  IN  IF i = 0 THEN str
      ELSE SubSeq(str, 1, i - 1) \o new \o SubSeq(str, i + Len(pat), Len(str))

\* line 41: the replacement: the registered prefix, or for an inherited
\* function what Object(match) converts to, the match itself.
replacement(v, match) == IF v.type = "string" THEN v.text ELSE match

\* lines 39-45: the uri after the branch.
rewritten(u) ==
  LET cp == customPath(u)
  IN  IF cp.found /\ truthy(dynImportPaths(cp.name))
        THEN replace(u, cp.full \o <<"/">>,
                     replacement(dynImportPaths(cp.name), cp.full \o <<"/">>))
        ELSE replace(u, <<".", "/">>, <<".", "/", ".", ".", "/">>)

\* lines 37, 43, 46-49: the entries appended to params, in order.
params(u, nonce, dbg, uuid) ==
  LET cp == customPath(u)
  IN  (IF (cp.found /\ truthy(dynImportPaths(cp.name))) \/ nonce = "undefined"
         THEN <<>> ELSE << <<"nonce", nonce>> >>)
      \o (IF dbg THEN << <<"debug", "true">>, <<"random", uuid>> >> ELSE <<>>)

\* URLSearchParams.prototype.toString: name=value joined by "&".
RECURSIVE toString(_)
toString(ps) ==
  IF ps = <<>> THEN <<>>
  ELSE <<ps[1][1], "=", ps[1][2]>>
         \o (IF Len(ps) > 1 THEN <<"&">> ELSE <<>>) \o toString(Tail(ps))

\* lines 36-51: rewritePath(uri)
rewritePath(u, nonce, dbg, uuid) ==
  rewritten(u) \o <<"?">> \o toString(params(u, nonce, dbg, uuid))

\* The keys, the nonce and the debug flag rewritePath is called with.
InitPath ==
  /\ \E n \in 1..MaxKeyLen : uri \in [1..n -> KeyTokens]
  /\ SITE_NONCE \in {"undefined", "n0nce"}
  /\ debug \in BOOLEAN
  /\ path = <<>>
  /\ started = FALSE
  /\ callback = FALSE
  /\ modules = <<>>
  /\ elements = <<>>
  /\ c = 0
  /\ epc = <<>>
  /\ eres = <<>>
  /\ einit = <<>>
  /\ decs = <<>>
  /\ cbCount = 0
  /\ ereported = <<>>
  /\ deferredModules = <<>>
  /\ listeners = {}
  /\ watches = <<>>
  /\ loads = <<>>
  /\ issued = <<>>
  /\ linit = <<>>
  /\ runs = <<>>
  /\ calls = <<>>
  /\ skipped = {}
  /\ lazyFailed = {}
  /\ lazyThrew = {}
  /\ reloaded = {}
  /\ shifts = 0

\* lines 72, 108: const path = rewritePath(key)
Resolve ==
  /\ path = <<>>
  /\ Len(uri) > 0
  /\ \E uuid \in UUIDs : path' = rewritePath(uri, SITE_NONCE, debug, uuid)
  /\ UNCHANGED <<uri, SITE_NONCE, debug>>
  /\ UNCHANGED scanVars
  /\ UNCHANGED eagerVars
  /\ UNCHANGED lazyVars

NextPath == Resolve

SpecPath == InitPath /\ [][NextPath]_vars

\* A document with eager requests only.
InitEager == InitWith(MaxEager, 0)

NextEager ==
  \/ dynImports
  \/ \E key \in 1..MaxEager : Settle(key)
  \/ \E key \in 1..MaxEager : Then(key)
  \/ \E key \in 1..MaxEager : Catch(key)
  \/ \E key \in 1..MaxEager : Finally(key)

SpecEager == InitEager /\ [][NextEager]_vars

\* A document with one deferred group only.
InitLazy == InitWith(0, 1)

NextLazy ==
  \/ dynImports
  \/ docShift
  \/ \E key \in {1}, element \in 1..MaxGroup : onVisible(key, element)
  \/ \E key \in {1} : LazySettle(key)
  \/ \E key \in {1} : LazyThen(key)
  \/ \E key \in {1} : LazyCatch(key)

SpecLazy == InitLazy /\ [][NextLazy]_vars

\* A document with at most one eager key and at most two deferred keys, one
\* element each.
InitMixed ==
  /\ InitWith(1, 2)
  /\ \A k \in DOMAIN modules : modules[k] = 1
  /\ \A k \in DOMAIN elements : elements[k] = 1

NextMixed ==
  \/ dynImports
  \/ \E key \in {1} : Settle(key)
  \/ \E key \in {1} : Then(key)
  \/ \E key \in {1} : Catch(key)
  \/ \E key \in {1} : Finally(key)
  \/ docShift
  \/ \E key \in {1, 2} : onVisible(key, 1)
  \/ \E key \in {1, 2} : LazySettle(key)
  \/ \E key \in {1, 2} : LazyThen(key)
  \/ \E key \in {1, 2} : LazyCatch(key)

SpecMixed == InitMixed /\ [][NextMixed]_vars

(***************************************************************************)
(* The claims.                                                             *)
(***************************************************************************)

\* The eager keys of the run, and those whose chain has passed .then().
EagerKeys == DOMAIN epc
PastThen(k) == epc[k] \in {"catch", "finally", "done"}

\* The lazy keys of the run.
LazyKeys == DOMAIN loads

\* C1: with N >= 1 eager keys the completion callback is invoked at most
\* once, for every interleaving of the then, catch and finally steps.
C1_CallbackAtMostOnce == cbCount <= 1

\* C2: once every one of the N >= 1 eager loads has settled, succeeded or
\* failed, and all its continuations have run, the completion callback has
\* been invoked.
C2_AllSettledCallbackInvoked ==
  (started /\ callback /\ EagerKeys # {} /\ \A k \in EagerKeys : epc[k] = "done")
    => cbCount >= 1

\* C3: c is decremented exactly once for every eager load that has settled,
\* succeeded or failed, and is never negative.
C3_DecrementOncePerSettled ==
  /\ c >= 0
  /\ \A k \in EagerKeys : PastThen(k) => decs[k] = 1

\* C4: whenever the completion callback has been invoked, every eager load
\* of the run has settled.
C4_CallbackAfterAllSettled ==
  cbCount > 0 => \A k \in EagerKeys : eres[k] # "none"

\* C4 witness: the callback was invoked in a run of two eager keys.
C4_Witness == cbCount > 0 /\ Cardinality(EagerKeys) >= 2

\* C5: when the visibility callbacks of several elements of a group, all
\* registered by one docShift dispatch, have run
\* before any load of the key has settled, exactly one load was issued.
C5_OneLoadPerDispatch ==
  \A K \in LazyKeys :
    (shifts = 1 /\ Cardinality(calls[K]) >= 2 /\ loads[K]["loading"] = issued[K])
      => issued[K] = 1

\* C6: the init hook of every key, eager or lazy, is invoked at most once.
C6_InitAtMostOnce ==
  /\ \A k \in EagerKeys : Len(einit[k]) <= 1
  /\ \A K \in LazyKeys : Len(linit[K]) <= 1

\* C7: once a key is absent from deferredModules no step issues a load for
\* it, and a visibility callback of its group (a step that fires a watch)
\* invokes no init hook.
C7_RemovedNeverLoads ==
  [][\A K \in LazyKeys :
       K \notin DOMAIN deferredModules =>
         /\ issued'[K] = issued[K]
         /\ loads'[K]["loading"] <= loads[K]["loading"]
         /\ (watches'[K] # watches[K] => linit'[K] = linit[K])]_vars

\* C7 witness: a visibility callback ran after the key was removed and
\* found the guard false.
C7_Witness == \E K \in LazyKeys : K \in skipped /\ issued[K] >= 1

\* C8: after a lazy load of a key has failed the key is absent from
\* deferredModules and no load of the key has been issued since.
C8_FailedKeyRemoved ==
  \A K \in lazyFailed : K \notin DOMAIN deferredModules /\ K \notin reloaded

\* C9: once the first visibility callback of a group has run, its
\* watchModules is unsubscribed and no later docShift signal runs it.
C9_UnsubscribedAfterFirstCallback ==
  [][\A K \in LazyKeys :
       calls[K] # {} => (K \notin listeners /\ runs'[K] = runs[K])]_vars

\* C9 witness: a docShift signal was delivered that did not run the group's
\* handler, after a callback of the group ran.
C9_Witness == \E K \in LazyKeys : calls[K] # {} /\ shifts > runs[K]

\* C10: every eager key whose load succeeded with a module exporting init has
\* had init invoked with its element group, whatever happened to the others.
C10_SiblingsStillInitialised ==
  \A k \in EagerKeys :
    (PastThen(k) /\ eres[k] \in {"init", "throws"})
      => einit[k] = <<Group(modules[k])>>

\* C10 witness: one load failed and was reported, and a sibling that settled
\* successfully has been initialised.
C10_Witness ==
  \E j, k \in EagerKeys :
    /\ j # k
    /\ eres[j] = "error" /\ epc[j] = "done"
    /\ eres[k] = "init" /\ Len(einit[k]) = 1

\* C11: when an eager module's init throws, the error is caught and reported,
\* the load still decrements c, and once every load of the run has settled
\* and run its continuations the completion callback has been invoked.
C11_InitThrowStillCompletes ==
  \A k \in EagerKeys :
    (PastThen(k) /\ eres[k] = "throws")
      => /\ ereported[k] = 1
         /\ decs[k] = 1
         /\ (callback /\ \A j \in EagerKeys : epc[j] = "done") => cbCount >= 1

\* C12: as long as some eager load has not settled, c is nonzero and the
\* completion callback has not been invoked, however the other loads settled.
C12_UnsettledBlocksCompletion ==
  (\E k \in EagerKeys : eres[k] = "none") => (c # 0 /\ cbCount = 0)

\* C12 witness: one load is still unsettled while a sibling has settled and
\* run all its continuations, with a callback given.
C12_Witness ==
  \E j, k \in EagerKeys :
    callback /\ eres[k] = "none" /\ epc[j] = "done" /\ eres[j] # "error"

\* C13: for an eager key whose load succeeded with a module exporting init,
\* init is invoked exactly once, with the key's whole element group, and not
\* later than the key's decrement of c, so before the completion callback.
C13_InitOnceWithGroupBeforeDecrement ==
  \A k \in EagerKeys :
    eres[k] \in {"init", "throws"}
      => /\ Len(einit[k]) <= 1
         /\ \A i \in 1..Len(einit[k]) : einit[k][i] = Group(modules[k])
         /\ PastThen(k) => Len(einit[k]) = 1
         /\ decs[k] > 0 => Len(einit[k]) = 1
         /\ cbCount > 0 => Len(einit[k]) = 1

\* C13 witness: a key with two elements was initialised with both, has
\* decremented c, and the completion callback has run.
C13_Witness ==
  \E k \in EagerKeys :
    /\ modules[k] = 2 /\ eres[k] = "init"
    /\ einit[k] = <<{1, 2}>> /\ decs[k] = 1 /\ cbCount > 0

\* How often token t occurs in string str.
Count(t, str) == Cardinality({i \in 1..Len(str) : str[i] = t})

\* The returned string before and after its last "?".
LastQuery(str) ==
  IF Count("?", str) = 0 THEN Len(str) + 1
  ELSE CHOOSE i \in 1..Len(str) :
         str[i] = "?" /\ \A h \in (i + 1)..Len(str) : str[h] # "?"
UriPart(str) == SubSeq(str, 1, LastQuery(str) - 1)
QueryPart(str) == SubSeq(str, LastQuery(str) + 1, Len(str))

\* The key starts with %name% and name is the registered alias.
StartsWithRegisteredAlias(u) ==
  Len(u) >= 3 /\ u[1] = "%" /\ u[2] = "assets" /\ u[3] = "%"

\* C14: a key starting with %name%, name a registered alias, has the alias
\* token and its trailing separator replaced by the registered prefix and
\* gets no nonce; every other key has its first "./" rewritten to "./../" and
\* gets nonce=<value> exactly when a nonce is configured.
C14_OneBranchPerKey ==
  path # <<>> =>
    IF StartsWithRegisteredAlias(uri)
      THEN /\ UriPart(path) =
                <<"https://code.hnldesign.nl/js-modules/">>
                  \o SubSeq(uri, IF Len(uri) >= 4 /\ uri[4] = "/" THEN 5 ELSE 4,
                            Len(uri))
           /\ Count("nonce", QueryPart(path)) = 0
      ELSE /\ UriPart(path) = replace(uri, <<".", "/">>, <<".", "/", ".", ".", "/">>)
           /\ Count("nonce", QueryPart(path)) =
                (IF SITE_NONCE = "undefined" THEN 0 ELSE 1)
           /\ SITE_NONCE # "undefined" =>
                \E i \in 1..Len(path) :
                  SubSeq(path, i, i + 2) = <<"nonce", "=", SITE_NONCE>>

\* C15: for a key that already holds a query string the result holds a single
\* "?", the key's query components and the new parameters behind it; a result
\* that carries no parameter has no "?" appended.
C15_QueryMerged ==
  path # <<>> =>
    /\ Count("?", uri) = 1 =>
         /\ Count("?", path) = 1
         /\ \A i \in 1..Len(QueryPart(uri)) : QueryPart(path)[i] = QueryPart(uri)[i]
    /\ Count("=", path) = 0 => Count("?", path) = Count("?", uri)

\* C16: whenever a lazy load of a key is in flight, issued and not yet
\* settled, the key is absent from deferredModules.
C16_RemovedBeforeSettle ==
  \A K \in LazyKeys : loads[K]["loading"] > 0 => K \notin DOMAIN deferredModules

\* C17 as claimed: once the deferred set is processed, and before any docShift
\* signal, every group is subscribed and every element of it has a
\* visibility watch registered.
C17_WatchesOnEntry ==
  (started /\ shifts = 0) =>
    \A K \in LazyKeys :
      K \in listeners /\ \A e \in Group(elements[K]) : watches[K][e] >= 1

\* C17 as amended: processing the deferred set subscribes every group to
\* docShift and registers no visibility watch; every docShift signal
\* registers one more watch for every element of every group still
\* subscribed, and none for the others.
C17_SubscribedThenRearmed ==
  [][/\ (~started /\ started') =>
          /\ listeners' = DOMAIN elements
          /\ \A K \in DOMAIN elements :
               \A e \in Group(elements[K]) : watches'[K][e] = 0
     /\ (shifts' # shifts) =>
          \A K \in LazyKeys : \A e \in Group(elements[K]) :
            watches'[K][e] = watches[K][e] + (IF K \in listeners THEN 1 ELSE 0)]_vars

\* C17 witness: two docShift signals have each registered a watch on both
\* elements of a group that is still subscribed.
C17_Witness ==
  \E K \in LazyKeys :
    /\ elements[K] = 2 /\ K \in listeners /\ shifts = 2
    /\ \A e \in Group(elements[K]) : watches[K][e] = 2

\* C20: when the init of a lazily loaded module throws, the key is removed
\* from deferredModules in that same step, and from then on it stays removed,
\* no load is issued for it and no visibility callback initialises it.
C20_LazyThrowStillRemoves ==
  [][\A K \in LazyKeys :
       /\ (K \in lazyThrew' /\ K \notin lazyThrew)
            => K \notin DOMAIN deferredModules'
       /\ K \in lazyThrew =>
            /\ K \notin DOMAIN deferredModules
            /\ issued'[K] = issued[K]
            /\ (watches'[K] # watches[K] => linit'[K] = linit[K])]_vars

\* C20 witness: the only load issued for a key ended in an init that threw,
\* and a later visibility callback of the group found the guard false.
C20_Witness ==
  \E K \in LazyKeys :
    K \in lazyThrew /\ issued[K] = 1 /\ Len(linit[K]) = 1 /\ K \in skipped

LazyStepOf(A) ==
  \/ loads'[A] # loads[A]
  \/ calls'[A] # calls[A]
  \/ (shifts' = shifts /\ watches'[A] # watches[A])

\* C19: a visibility callback or load settlement of group A issues no load
\* for another group B, neither removes B from deferredModules nor
\* unsubscribes B's docShift handler, and leaves c unchanged.
C19_GroupsIsolated ==
  [][\A A \in LazyKeys :
       LazyStepOf(A) =>
         /\ c' = c
         /\ \A B \in LazyKeys \ {A} :
              /\ issued'[B] = issued[B]
              /\ loads'[B] = loads[B]
              /\ (B \in DOMAIN deferredModules') = (B \in DOMAIN deferredModules)
              /\ (B \in listeners') = (B \in listeners)]_vars

\* C19 witness: group A has loaded and removed its key while group B is
\* untouched, still registered and subscribed, and c is still nonzero.
C19_Witness ==
  \E A, B \in LazyKeys :
    /\ A # B
    /\ A \notin DOMAIN deferredModules /\ A \notin listeners
    /\ B \in DOMAIN deferredModules /\ B \in listeners /\ issued[B] = 0
    /\ c > 0
====
